---- MODULE Spec2Model ----
(***************************************************************************)
(* A model of plothere.py: decoding a HERE isoline response into a dict    *)
(* of rings, plotting the rings as nested patches (plot_isolines and       *)
(* patch_between), unit validation and conversion, the map extent          *)
(* (find_extent) and the automatic scale-bar length (scale_bar).           *)
(*                                                                         *)
(* Python floats are IEEE-754 binary64 values.  They are modelled bit for  *)
(* bit: a finite double is sign * mantissa * 2^exponent with a 53-bit      *)
(* mantissa kept as a little-endian sequence of 15-bit limbs, and every    *)
(* arithmetic operation rounds to nearest, ties to even.                   *)
(***************************************************************************)
EXTENDS Integers, Sequences, FiniteSets, TLC

VARIABLES
    pc,             \* position of the running call
    here_response,  \* here_isolines_to_WGS84: the 'isolines' list of the response
    isolines,       \* the dict {range value: coords} in insertion order
    units,          \* plot_isolines: units
    ax_units,       \* plot_isolines: ax_units
    values,         \* plot_isolines: the converted range values
    patches,        \* plot_isolines: the patches added to the axes, in order
    all_poly,       \* find_extent: the list of polygons
    buffer,         \* find_extent: buffer
    extent,         \* find_extent: the returned list
    span,           \* scale_bar: x1 - x0, the width of the viewport in metres
    length,         \* scale_bar: length
    ndim,           \* scale_bar: ndim
    x,              \* scale_number: its argument x
    depth,          \* scale_number: number of nested calls made so far
    diag            \* the diagnostic printed or the exception raised, or "ok"

vars == <<pc, here_response, isolines, units, ax_units, values, patches,
          all_poly, buffer, extent, span, length, ndim, x, depth, diag>>

\* The value of a variable the running specification does not use.
None == "None"

----------------------------------------------------------------------------
(* Sequences *)

Reverse(s) == [i \in 1..Len(s) |-> s[Len(s) + 1 - i]]

Range(s) == {s[i] : i \in DOMAIN s}

\* All sequences over S of length lo..hi.
SeqsOf(S, lo, hi) == UNION {[1..n -> S] : n \in lo..hi}

----------------------------------------------------------------------------
(* Call by value.  F applied to the value of e: e is evaluated once, before *)
(* the body of F, however often the body uses it.                           *)

Let1(e, F(_)) == CHOOSE r \in {F(v) : v \in {e}} : TRUE

Let2(e1, e2, F(_, _)) == CHOOSE r \in {F(v1, v2) : v1 \in {e1}, v2 \in {e2}} : TRUE

MaxI(a, b) == IF a >= b THEN a ELSE b
MinI(a, b) == IF a <= b THEN a ELSE b

SetMax(S) == CHOOSE i \in S : \A j \in S : j <= i

----------------------------------------------------------------------------
(* Natural numbers of any size: little-endian sequences of limbs in        *)
(* 0..Base-1 with no leading zero limb; zero is the empty sequence.  TLC's *)
(* integers are 32 bits wide, the mantissa arithmetic of a double is not.  *)

Base == 2^15

Limb(a, i) == IF i \in 1..Len(a) THEN a[i] ELSE 0

\* a without its leading zero limbs.
BNorm(a0) ==
    Let1(a0, LAMBDA a :
        Let1({i \in 1..Len(a) : a[i] # 0}, LAMBDA nz :
            IF nz = {} THEN <<>> ELSE SubSeq(a, 1, SetMax(nz))))

\* A Python int 0 <= n < 2^31.
BFromInt(n) == BNorm(<<n % Base, (n \div Base) % Base, n \div (Base * Base)>>)

BZero == <<>>
BOne == <<1>>

\* -1, 0 or 1 as a < b, a = b or a > b.
BCmp(a0, b0) ==
    Let2(a0, b0, LAMBDA a, b :
        Let1({i \in 1..MaxI(Len(a), Len(b)) : Limb(a, i) # Limb(b, i)}, LAMBDA d :
            IF d = {} THEN 0
            ELSE IF Limb(a, SetMax(d)) > Limb(b, SetMax(d)) THEN 1 ELSE -1))

RECURSIVE BAddC(_, _, _, _)
BAddC(a, b, i, c) ==
    IF i > MaxI(Len(a), Len(b))
    THEN (IF c = 0 THEN <<>> ELSE <<c>>)
    ELSE Let1(Limb(a, i) + Limb(b, i) + c, LAMBDA t :
             <<t % Base>> \o BAddC(a, b, i + 1, t \div Base))

BAdd(a0, b0) == Let2(a0, b0, LAMBDA a, b : BAddC(a, b, 1, 0))

RECURSIVE BSubC(_, _, _, _)
BSubC(a, b, i, c) ==
    IF i > Len(a) THEN <<>>
    ELSE Let1(Limb(a, i) - Limb(b, i) - c, LAMBDA t :
             <<t % Base>> \o BSubC(a, b, i + 1, IF t < 0 THEN 1 ELSE 0))

\* a - b for a >= b.
BSub(a0, b0) == Let2(a0, b0, LAMBDA a, b : BNorm(BSubC(a, b, 1, 0)))

RECURSIVE BMulAddC(_, _, _, _)
BMulAddC(a, k, i, c) ==
    IF i > Len(a)
    THEN (IF c = 0 THEN <<>> ELSE <<c>>)
    ELSE Let1(a[i] * k + c, LAMBDA t :
             <<t % Base>> \o BMulAddC(a, k, i + 1, t \div Base))

\* a * k + c for 0 <= k, c < Base.
BMulAdd(a0, k0, c) == Let2(a0, k0, LAMBDA a, k : BNorm(BMulAddC(a, k, 1, c)))

\* a * Base^n
BShlLimbs(a0, n) ==
    Let1(a0, LAMBDA a : IF a = <<>> THEN <<>> ELSE [i \in 1..n |-> 0] \o a)

\* a * b[j..] * Base^(j-1)
RECURSIVE BMulAt(_, _, _)
BMulAt(a, b, j) ==
    IF j > Len(b) THEN <<>>
    ELSE BAdd(BShlLimbs(BMulAdd(a, b[j], 0), j - 1), BMulAt(a, b, j + 1))

BMul(a0, b0) == Let2(a0, b0, LAMBDA a, b : BNorm(BMulAt(a, b, 1)))

\* a * 2^s
BShl(a, s0) == Let1(s0, LAMBDA s : BShlLimbs(BMulAdd(a, 2^(s % 15), 0), s \div 15))

\* floor(a / 2^s)
BShr(a0, s0) ==
    Let2(a0, s0, LAMBDA a, s :
        Let2(s \div 15, s % 15, LAMBDA q, r :
            BNorm([j \in 1..MaxI(Len(a) - q, 0) |->
                      (a[j + q] \div 2^r) + (Limb(a, j + q + 1) % 2^r) * 2^(15 - r)])))

\* Bit i of a, bit 0 being the lowest.
BBit(a0, i0) ==
    Let2(a0, i0, LAMBDA a, i : (Limb(a, i \div 15 + 1) \div 2^(i % 15)) % 2)

\* The number of bits of 0 <= n < Base.
IntBits(n0) == Let1(n0, LAMBDA n : Cardinality({j \in 0..14 : 2^j <= n}))

\* The number of bits of a: 0 for zero.
BLen(a0) ==
    Let1(a0, LAMBDA a :
        IF a = <<>> THEN 0 ELSE (Len(a) - 1) * 15 + IntBits(a[Len(a)]))

\* Are the s lowest bits of a all zero?
BLowZero(a0, s0) == Let2(a0, s0, LAMBDA a, s : BShl(BShr(a, s), s) = a)

\* One step of long division: <<q, r>> after bit i of n is brought down.
BDivStep(n, d, i, qr) ==
    Let1(BMulAdd(qr[2], 2, BBit(n, i)), LAMBDA r2 :
        IF BCmp(r2, d) >= 0
        THEN <<BMulAdd(qr[1], 2, 1), BSub(r2, d)>>
        ELSE <<BMulAdd(qr[1], 2, 0), r2>>)

\* The steps for bits hi down to lo of n, in that order: the upper half of
\* the bits first, then the lower half from where the upper half ended.
RECURSIVE BDivBits(_, _, _, _, _)
BDivBits(n, d, hi, lo, qr) ==
    IF hi < lo THEN qr
    ELSE IF hi = lo THEN BDivStep(n, d, hi, qr)
    ELSE Let1((hi + lo) \div 2, LAMBDA mid :
             Let1(BDivBits(n, d, hi, mid + 1, qr), LAMBDA upper :
                 BDivBits(n, d, mid, lo, upper)))

\* <<floor(n / d), n mod d>> for d > 0.  The bits of n above the length of
\* d cannot produce a quotient bit before the remainder holds BLen(d) bits.
BDivMod(n0, d0) ==
    Let2(n0, d0, LAMBDA n, d :
        Let1(MinI(BLen(n), BLen(d) - 1), LAMBDA skip :
            BDivBits(n, d, BLen(n) - skip - 1, 0,
                     <<BZero, BShr(n, BLen(n) - skip)>>)))

----------------------------------------------------------------------------
(* Python floats (IEEE-754 binary64).  A finite double is the record       *)
(* [k |-> "fin", s, m, e] of value s * m * 2^e, with sign s in {1, -1} and *)
(* either m = 0 and e = 0, or 2^52 <= m < 2^53.  The infinities are        *)
(* [k |-> "inf", s, ...] and not-a-number is [k |-> "nan", ...].  All the  *)
(* values of the model lie far inside the exponent range of the format,    *)
(* so subnormals and overflow are left out.                                *)

MantBits == 52 + 1

FZero == [k |-> "fin", s |-> 1, m |-> <<>>, e |-> 0]
FInf == [k |-> "inf", s |-> 1, m |-> <<>>, e |-> 0]
FNegInf == [k |-> "inf", s |-> -1, m |-> <<>>, e |-> 0]
FNaN == [k |-> "nan", s |-> 1, m |-> <<>>, e |-> 0]

Fin(s, m, e) == [k |-> "fin", s |-> s, m |-> m, e |-> e]

IsZero(a) == a.k = "fin" /\ a.m = <<>>

\* n > 2^53 cut to its top 53 bits, t bits dropped, rounded to nearest with
\* ties to even; sticky says the exact value lies strictly above n.
RoundCut(s, n, e, t, sticky) ==
    Let1(BShr(n, t), LAMBDA m0 :
        Let1(/\ BBit(n, t - 1) = 1
             /\ (sticky \/ ~BLowZero(n, t - 1) \/ BBit(m0, 0) = 1), LAMBDA up :
            Let1(IF up THEN BAdd(m0, BOne) ELSE m0, LAMBDA m1 :
                IF BLen(m1) > MantBits
                THEN Fin(s, BShr(m1, 1), e + t + 1)
                ELSE Fin(s, m1, e + t))))

\* The double nearest to s * n * 2^e (ties to even), the exact value lying
\* strictly between n and n + 1 times 2^e when sticky.
RoundBig(s, n0, e, sticky) ==
    Let1(n0, LAMBDA n :
        Let1(BLen(n) - MantBits, LAMBDA t :
            IF n = <<>> THEN Fin(s, <<>>, 0)
            ELSE IF t <= 0 THEN Fin(s, BShl(n, -t), e + t)
            ELSE RoundCut(s, n, e, t, sticky)))

\* float(n) for a Python int n that a double holds exactly.
FromInt(n0) ==
    Let1(n0, LAMBDA n :
        IF n >= 0 THEN RoundBig(1, BFromInt(n), 0, FALSE)
        ELSE RoundBig(-1, BFromInt(-n), 0, FALSE))

FNeg(a0) == Let1(a0, LAMBDA a : IF a.k = "nan" THEN a ELSE [a EXCEPT !.s = -a.s])

FAbs(a0) == Let1(a0, LAMBDA a : IF a.k = "nan" THEN a ELSE [a EXCEPT !.s = 1])

\* Compare the magnitudes of two finite doubles: -1, 0 or 1.
MagCmp(a, b) ==
    IF a.m = <<>> \/ b.m = <<>>
    THEN (IF a.m = b.m THEN 0 ELSE IF a.m = <<>> THEN -1 ELSE 1)
    ELSE IF a.e # b.e THEN (IF a.e > b.e THEN 1 ELSE -1)
    ELSE BCmp(a.m, b.m)

\* a < b, as Python compares floats: false when either is not a number.
FLt(a0, b0) ==
    Let2(a0, b0, LAMBDA a, b :
        IF a.k = "nan" \/ b.k = "nan" THEN FALSE
        ELSE IF a.k = "inf" THEN a.s = -1 /\ ~(b.k = "inf" /\ b.s = -1)
        ELSE IF b.k = "inf" THEN b.s = 1
        ELSE IF IsZero(a) /\ IsZero(b) THEN FALSE
        ELSE IF a.s # b.s THEN a.s = -1
        ELSE IF a.s = 1 THEN MagCmp(a, b) < 0
        ELSE MagCmp(a, b) > 0)

\* a == b, as Python compares floats (0.0 == -0.0).
FEq(a0, b0) ==
    Let2(a0, b0, LAMBDA a, b :
        /\ a.k # "nan" /\ b.k # "nan"
        /\ ~FLt(a, b) /\ ~FLt(b, a))

FLe(a0, b0) == Let2(a0, b0, LAMBDA a, b : FLt(a, b) \/ FEq(a, b))

\* a + b for finite, nonzero a and b: both as multiples of 2^e.
AddFinite(a, b, e) ==
    Let2(BShl(a.m, a.e - e), BShl(b.m, b.e - e), LAMBDA x1, x2 :
        Let1(BCmp(x1, x2), LAMBDA c :
            IF a.s = b.s THEN RoundBig(a.s, BAdd(x1, x2), e, FALSE)
            ELSE IF c = 0 THEN FZero
            ELSE IF c > 0 THEN RoundBig(a.s, BSub(x1, x2), e, FALSE)
            ELSE RoundBig(b.s, BSub(x2, x1), e, FALSE)))

\* a + b
FAdd(a0, b0) ==
    Let2(a0, b0, LAMBDA a, b :
        IF a.k = "nan" \/ b.k = "nan" THEN FNaN
        ELSE IF a.k = "inf"
        THEN (IF b.k = "inf" /\ b.s # a.s THEN FNaN ELSE a)
        ELSE IF b.k = "inf" THEN b
        ELSE IF IsZero(a) /\ IsZero(b)
        THEN (IF a.s = -1 /\ b.s = -1 THEN a ELSE FZero)
        ELSE IF IsZero(a) THEN b
        ELSE IF IsZero(b) THEN a
        ELSE AddFinite(a, b, MinI(a.e, b.e)))

\* a - b
FSub(a, b) == FAdd(a, FNeg(b))

\* a * b
FMul(a0, b0) ==
    Let2(a0, b0, LAMBDA a, b :
        IF a.k = "nan" \/ b.k = "nan" THEN FNaN
        ELSE IF a.k = "inf" \/ b.k = "inf"
        THEN (IF IsZero(a) \/ IsZero(b) THEN FNaN
              ELSE [FInf EXCEPT !.s = a.s * b.s])
        ELSE RoundBig(a.s * b.s, BMul(a.m, b.m), a.e + b.e, FALSE))

\* a / b for finite a and finite b # 0.
FDiv(a0, b0) ==
    Let2(a0, b0, LAMBDA a, b :
        IF IsZero(a) THEN Fin(a.s * b.s, <<>>, 0)
        ELSE Let1(BDivMod(BShl(a.m, MantBits + 2), b.m), LAMBDA qr :
                 RoundBig(a.s * b.s, qr[1], a.e - b.e - (MantBits + 2), qr[2] # <<>>)))

\* The double a decimal literal n/d denotes (n an int, d a power of ten,
\* both exact doubles): the correctly rounded quotient.
Dec(n, d) == FDiv(FromInt(n), FromInt(d))

----------------------------------------------------------------------------
(* Strings.  A Python str is modelled as the sequence of its characters,   *)
(* so that str.lower() is computed character by character.                 *)

UpperChars == <<"A", "B", "C", "D", "E", "F", "G", "H", "I", "J", "K", "L", "M",
                "N", "O", "P", "Q", "R", "S", "T", "U", "V", "W", "X", "Y", "Z">>
LowerChars == <<"a", "b", "c", "d", "e", "f", "g", "h", "i", "j", "k", "l", "m",
                "n", "o", "p", "q", "r", "s", "t", "u", "v", "w", "x", "y", "z">>

LowerChar(c) ==
    IF \E j \in DOMAIN UpperChars : UpperChars[j] = c
    THEN LowerChars[CHOOSE j \in DOMAIN UpperChars : UpperChars[j] = c]
    ELSE c

\* str.lower()
Lower(str) == [i \in 1..Len(str) |-> LowerChar(str[i])]

----------------------------------------------------------------------------
(* plot_isolines: the unit checks and the unit conversion *)

\* The list both membership checks of lines 134 and 137 test against.
AllUnits ==
    {<<"s">>,
     <<"s", "e", "c", "o", "n", "d", "s">>,
     <<"m", "i", "n">>,
     <<"m", "i", "n", "u", "t", "e", "s">>,
     <<"h", "o", "u", "r", "s">>,
     <<"h">>,
     <<"m">>,
     <<"m", "e", "t", "e", "r", "s">>,
     <<"k", "m">>,
     <<"k", "i", "l", "o", "m", "e", "t", "e", "r", "s">>,
     <<"k", "m", "s">>,
     <<"f", "t">>,
     <<"f", "e", "e", "t">>,
     <<"f", "o", "o", "t">>,
     <<"y", "a", "r", "d">>,
     <<"y", "r", "d">>,
     <<"y", "a", "r", "d", "s">>,
     <<"m", "i", "l", "e">>,
     <<"m", "i", "l", "e", "s">>,
     <<"m", "i">>,
     <<"m", "l", "s">>}

\* The list of lines 140 and 143: the time units.
TimeUnits ==
    {<<"s">>,
     <<"s", "e", "c", "o", "n", "d", "s">>,
     <<"m", "i", "n">>,
     <<"m", "i", "n", "u", "t", "e", "s">>,
     <<"h", "o", "u", "r", "s">>,
     <<"h">>}

\* The list of lines 140 and 143: the distance units.
DistanceUnits ==
    {<<"m">>,
     <<"m", "e", "t", "e", "r", "s">>,
     <<"k", "m">>,
     <<"k", "i", "l", "o", "m", "e", "t", "e", "r", "s">>,
     <<"k", "m", "s">>,
     <<"f", "t">>,
     <<"f", "e", "e", "t">>,
     <<"f", "o", "o", "t">>,
     <<"y", "a", "r", "d">>,
     <<"y", "r", "d">>,
     <<"y", "a", "r", "d", "s">>,
     <<"m", "i", "l", "e">>,
     <<"m", "i", "l", "e", "s">>,
     <<"m", "i">>,
     <<"m", "l", "s">>}

\* Line 134: units is not one of the listed strings (compared as written).
BadUnits(u) == u \notin AllUnits

\* Line 137: ax_units is not one of the listed strings.
BadAxUnits(au) == au \notin AllUnits

\* Line 140: isoline units of time, axis units of distance.
TimeToDistance(u, au) == u \in TimeUnits /\ au \in DistanceUnits

\* A faulty variant, for the sensitivity of C3: the check of line 143 left out.
DistanceToTimeUnchecked(u, au) == FALSE

\* Line 143: isoline units not of time, axis units not of distance.
DistanceToTime(u, au) == u \notin TimeUnits /\ au \notin DistanceUnits

\* The outcome of the four checks, in the order the code makes them: the
\* diagnostic printed before `return None', or "ok".
CheckUnits(u, au) ==
    IF BadUnits(u) THEN "Incorrect isoline unit specification"
    ELSE IF BadAxUnits(au) THEN "Incorrect axis unit specification"
    ELSE IF TimeToDistance(u, au) THEN "Incompatible (time and distance)"
    ELSE IF DistanceToTime(u, au) THEN "Incompatible (distance and time)"
    ELSE "ok"

\* The float literals of lines 159-163 and 176-180.
Lit_0_3048 == Dec(3048, 10000)
Lit_0_9144 == Dec(9144, 10000)
Lit_1609_344 == Dec(1609344, 1000)

\* Lines 148-163: a range value r (a double) in the base unit of `units':
\* seconds or metres.  "unbound" when no branch of the chain is taken
\* (`values' is then never assigned).
ToBase(u, r) ==
    LET l == Lower(u) IN
    IF l \in {<<"s">>, <<"s", "e", "c", "o", "n", "d", "s">>} THEN r
    ELSE IF l \in {<<"m", "i", "n">>, <<"m", "i", "n", "u", "t", "e", "s">>}
    THEN FMul(r, FromInt(60))
    ELSE IF l \in {<<"h", "o", "u", "r", "s">>, <<"h">>}
    THEN FMul(FMul(r, FromInt(60)), FromInt(60))
    ELSE IF l \in {<<"m">>, <<"m", "e", "t", "e", "r", "s">>} THEN r
    ELSE IF l \in {<<"k", "m">>, <<"k", "i", "l", "o", "m", "e", "t", "e", "r", "s">>, <<"k", "m", "s">>}
    THEN FMul(r, FromInt(1000))
    ELSE IF l \in {<<"f", "t">>, <<"f", "e", "e", "t">>, <<"f", "o", "o", "t">>}
    THEN FMul(r, Lit_0_3048)
    ELSE IF l \in {<<"y", "a", "r", "d">>, <<"y", "r", "d">>, <<"y", "a", "r", "d", "s">>}
    THEN FMul(r, Lit_0_9144)
    ELSE IF l \in {<<"m", "i", "l", "e">>, <<"m", "i", "l", "e", "s">>, <<"m", "i">>, <<"m", "l", "s">>}
    THEN FMul(r, Lit_1609_344)
    ELSE "unbound"

\* Lines 165-180: a value v in the base unit, in `ax_units'.
FromBase(au, v) ==
    LET l == Lower(au) IN
    IF l \in {<<"s">>, <<"s", "e", "c", "o", "n", "d", "s">>} THEN v
    ELSE IF l \in {<<"m", "i", "n">>, <<"m", "i", "n", "u", "t", "e", "s">>}
    THEN FDiv(v, FromInt(60))
    ELSE IF l \in {<<"h", "o", "u", "r", "s">>, <<"h">>}
    THEN FDiv(v, FromInt(60 * 60))
    ELSE IF l \in {<<"m">>, <<"m", "e", "t", "e", "r", "s">>} THEN v
    ELSE IF l \in {<<"k", "m">>, <<"k", "i", "l", "o", "m", "e", "t", "e", "r", "s">>, <<"k", "m", "s">>}
    THEN FDiv(v, FromInt(1000))
    ELSE IF l \in {<<"f", "t">>, <<"f", "e", "e", "t">>, <<"f", "o", "o", "t">>}
    THEN FDiv(v, Lit_0_3048)
    ELSE IF l \in {<<"y", "a", "r", "d">>, <<"y", "r", "d">>, <<"y", "a", "r", "d", "s">>}
    THEN FDiv(v, Lit_0_9144)
    ELSE IF l \in {<<"m", "i", "l", "e">>, <<"m", "i", "l", "e", "s">>, <<"m", "i">>, <<"m", "l", "s">>}
    THEN FDiv(v, Lit_1609_344)
    ELSE v

\* A faulty variant, for the sensitivity of C5: no division by the target.
ConvertToBaseOnly(u, au, r) == ToBase(u, r)

\* Lines 147-180 for one range value.
Convert(u, au, r) == FromBase(au, ToBase(u, r))

\* The defaults of line 109.
DefaultUnits == <<"s", "e", "c", "o", "n", "d", "s">>
DefaultAxUnits == <<"m", "i", "n", "u", "t", "e", "s">>

----------------------------------------------------------------------------
(* here_isolines_to_WGS84.  A dict is the sequence of its <<key, value>>   *)
(* pairs in insertion order.  An entry of the response is the record       *)
(* [value, outer]: iso['range']['value'] and the points <<lat, lon>> that  *)
(* fp.iter_decode yields for iso['polygons'][0]['outer'].                  *)

HasKey(d, key) == \E j \in DOMAIN d : d[j][1] = key

\* d[key] = val: a new key goes last, a present key keeps its place.
DictSet(d0, key, val) ==
    Let1(d0, LAMBDA d :
        IF HasKey(d, key)
        THEN [j \in DOMAIN d |-> IF d[j][1] = key THEN <<key, val>> ELSE d[j]]
        ELSE Append(d, <<key, val>>))

DictGet(d, key) == d[CHOOSE j \in DOMAIN d : d[j][1] = key][2]

\* list(d.keys())
Keys(d) == [j \in DOMAIN d |-> d[j][1]]

\* The dict after the first n entries of the response (lines 70-73).
RECURSIVE DecodeUpTo(_, _)
DecodeUpTo(response, n) ==
    IF n = 0 THEN <<>>
    ELSE DictSet(DecodeUpTo(response, n - 1), response[n].value, response[n].outer)

here_isolines_to_WGS84(response) == DecodeUpTo(response, Len(response))

----------------------------------------------------------------------------
(* patch_between and the plotting loop of plot_isolines.  A Path is the    *)
(* record [vertices, codes]; a patch is [path, label], the label being the *)
(* pair of values that line 196 or 204 rounds and prints.  The colour, the *)
(* line width and alpha are passed on to matplotlib unchanged.             *)

\* Lines 253-254, 256-257, 186-187: LINETO for each point, MOVETO first.
Codes(poly) == [j \in 1..Len(poly) |-> IF j = 1 THEN "MOVETO" ELSE "LINETO"]

\* A faulty variant, for the sensitivity of C1: the inner ring not reversed.
patch_between_forward(poly1, poly2) ==
    [vertices |-> poly1 \o poly2,
     codes |-> Codes(poly1) \o Codes(poly2)]

patch_between(poly1, poly2) ==
    [vertices |-> poly1 \o Reverse(poly2),
     codes |-> Codes(poly1) \o Codes(poly2)]

\* Line 129: the columns of an array of <<lat, lon>> rows, swapped.
LonLat(coords) == [j \in 1..Len(coords) |-> <<coords[j][2], coords[j][1]>>]

\* Line 129: the polygons of the dict, in the order of its keys.
Polygons(iso) == [j \in DOMAIN iso |-> LonLat(iso[j][2])]

\* Lines 183-204: the patch added for index i (from 1 here, from 0 there).
Patch(polygons, vals, i) ==
    IF i = 1
    THEN [path |-> [vertices |-> polygons[1], codes |-> Codes(polygons[1])],
          label |-> <<FZero, vals[1]>>]
    ELSE [path |-> patch_between(polygons[i], polygons[i - 1]),
          label |-> <<vals[i - 1], vals[i]>>]

\* Lines 147-180: np.array(ranges), converted.
Values(ranges, u, au) == [j \in DOMAIN ranges |-> Convert(u, au, ranges[j])]

\* plot_isolines: what it prints, the converted values and the patches it
\* adds to the axes, in order.  The keys of the dict are doubles.
plot_isolines(iso, u, au) ==
    Let1(CheckUnits(u, au), LAMBDA check :
        IF check # "ok"
        THEN [diag |-> check, values |-> None, patches |-> <<>>]
        ELSE Let2(Polygons(iso), Values(Keys(iso), u, au), LAMBDA polygons, vals :
                 [diag |-> "ok", values |-> vals,
                  patches |-> [i \in DOMAIN polygons |-> Patch(polygons, vals, i)]]))

----------------------------------------------------------------------------
(* find_extent.  The polygons hold integer coordinates here; the running   *)
(* bounds start at plus and minus infinity as in lines 84-87.              *)

RECURSIVE ColMaxUpTo(_, _, _)
ColMaxUpTo(poly, col, n) ==
    IF n = 1 THEN poly[1][col]
    ELSE MaxI(ColMaxUpTo(poly, col, n - 1), poly[n][col])

RECURSIVE ColMinUpTo(_, _, _)
ColMinUpTo(poly, col, n) ==
    IF n = 1 THEN poly[1][col]
    ELSE MinI(ColMinUpTo(poly, col, n - 1), poly[n][col])

\* np.max(Poly[:,col]) and np.min(Poly[:,col]), columns counted from 1.
NpMax(poly, col) == FromInt(ColMaxUpTo(poly, col, Len(poly)))
NpMin(poly, col) == FromInt(ColMinUpTo(poly, col, Len(poly)))

\* Lines 90-97: the bounds b after one more polygon.
ScanPoly(b, Poly) ==
    Let2(NpMax(Poly, 1), NpMin(Poly, 1), LAMBDA max0, min0 :
        Let2(NpMax(Poly, 2), NpMin(Poly, 2), LAMBDA max1, min1 :
            [lon_max |-> IF FLt(b.lon_max, max0) THEN max0 ELSE b.lon_max,
             lon_min |-> IF FLt(min0, b.lon_min) THEN min0 ELSE b.lon_min,
             lat_max |-> IF FLt(b.lat_max, max1) THEN max1 ELSE b.lat_max,
             lat_min |-> IF FLt(min1, b.lat_min) THEN min1 ELSE b.lat_min]))

\* Lines 84-97: the bounds after the first n polygons.
RECURSIVE ScanUpTo(_, _)
ScanUpTo(polys, n) ==
    IF n = 0
    THEN [lon_max |-> FNegInf, lon_min |-> FInf, lat_max |-> FNegInf, lat_min |-> FInf]
    ELSE Let1(ScanUpTo(polys, n - 1), LAMBDA b : ScanPoly(b, polys[n]))

\* Line 99.
LonBuffer(b, buf) == FMul(FAbs(FSub(b.lon_max, b.lon_min)), buf)

\* A faulty variant, for the sensitivity of C8: padding from the lat span.
LatBufferOfLat(b, buf) == FMul(FAbs(FSub(b.lat_max, b.lat_min)), buf)

\* Line 100.
LatBuffer(b, buf) == FMul(FAbs(FSub(b.lon_max, b.lon_min)), buf)

\* The returned list [bottom, top, left, right].
find_extent(polys, buf) ==
    Let1(ScanUpTo(polys, Len(polys)), LAMBDA b :
        Let2(LonBuffer(b, buf), LatBuffer(b, buf), LAMBDA lon_buffer, lat_buffer :
            <<FSub(b.lon_min, lon_buffer), FAdd(b.lon_max, lon_buffer),
              FSub(b.lat_min, lat_buffer), FAdd(b.lat_max, lat_buffer)>>))

----------------------------------------------------------------------------
(* Rendering one response: decode it, then size the map or plot the        *)
(* isolines under the default units.                                       *)

\* The longest response.
MaxEntries == 3

\* The range values of the responses: 10, 20 and 30, as doubles.
RangeValues == {FromInt(10 * k) : k \in 1..3}

\* The rings of the responses, as points <<lat, lon>>.  The second spans
\* the longitudes 0 to 10 and the latitudes 0 to 5.
Rings == {<<<<2, 4>>, <<3, 6>>, <<1, 5>>>>,
          <<<<0, 0>>, <<5, 10>>, <<0, 10>>>>}

Entries == [value : RangeValues, outer : Rings]
Responses == SeqsOf(Entries, 0, MaxEntries)

\* The default buffer of line 77 and a wider one.
DefaultBuffer == Dec(1, 10)
Buffers == {DefaultBuffer, Dec(1, 4)}

InitRender ==
    /\ pc = "start"
    /\ here_response \in Responses
    /\ units = DefaultUnits
    /\ ax_units = DefaultAxUnits
    /\ buffer \in Buffers
    /\ isolines = None /\ values = None /\ patches = None /\ diag = None
    /\ all_poly = None /\ extent = None
    /\ span = None /\ length = None /\ ndim = None /\ x = None /\ depth = None

Decode ==
    /\ pc = "start"
    /\ isolines' = here_isolines_to_WGS84(here_response)
    /\ pc' = "decoded"
    /\ UNCHANGED <<here_response, units, ax_units, values, patches, diag,
                   all_poly, buffer, extent, span, length, ndim, x, depth>>

\* find_extent on the polygons of the decoded dict.
Extent ==
    /\ pc = "decoded"
    /\ \E polys \in {Polygons(isolines)} :
          /\ all_poly' = polys
          /\ extent' = find_extent(polys, buffer)
    /\ pc' = "sized"
    /\ UNCHANGED <<here_response, isolines, units, ax_units, values, patches,
                   diag, buffer, span, length, ndim, x, depth>>

\* plot_isolines on the decoded dict.
Plot ==
    /\ pc = "decoded"
    /\ \E r \in {plot_isolines(isolines, units, ax_units)} :
          /\ diag' = r.diag
          /\ values' = r.values
          /\ patches' = r.patches
    /\ pc' = "plotted"
    /\ UNCHANGED <<here_response, isolines, units, ax_units,
                   all_poly, buffer, extent, span, length, ndim, x, depth>>

NextRender == Decode \/ Extent \/ Plot

SpecRender == InitRender /\ [][NextRender]_vars

----------------------------------------------------------------------------
(* Labelling in other units: plot_isolines on a dict of one isoline, under *)
(* every pair of unit tokens, and then again in the opposite direction on  *)
(* the value the first call converted.                                     *)

\* Listed aliases in another case, and a token that is no alias.
OtherTokens == {<<"M", "i", "n", "u", "t", "e", "s">>, <<"K", "M">>,
                <<"p", "a", "r", "s", "e", "c">>}

Tokens == AllUnits \cup OtherTokens

\* The dict whose keys are the values the last call converted.
Relabelled(iso, vals) == [j \in DOMAIN iso |-> <<vals[j], iso[j][2]>>]

\* A response of one isoline, decoded.
InitUnits ==
    /\ pc = "decoded"
    /\ here_response \in {<<entry>> : entry \in Entries}
    /\ isolines = here_isolines_to_WGS84(here_response)
    /\ units \in Tokens
    /\ ax_units \in Tokens
    /\ buffer = None
    /\ values = None /\ patches = None /\ diag = None
    /\ all_poly = None /\ extent = None
    /\ span = None /\ length = None /\ ndim = None /\ x = None /\ depth = None

\* plot_isolines once more, from ax_units back to units, on the dict
\* keyed by the values the first call converted.
PlotBack ==
    /\ pc = "plotted"
    /\ diag = "ok"
    /\ \E iso \in {Relabelled(isolines, values)} :
          \E r \in {plot_isolines(iso, ax_units, units)} :
              /\ isolines' = iso
              /\ diag' = r.diag
              /\ values' = r.values
              /\ patches' = r.patches
    /\ pc' = "plotted back"
    /\ UNCHANGED <<here_response, units, ax_units,
                   all_poly, buffer, extent, span, length, ndim, x, depth>>

NextUnits == Plot \/ PlotBack

SpecUnits == InitUnits /\ [][NextUnits]_vars

----------------------------------------------------------------------------
(* scale_bar, lines 229-237: the length of the bar when none is given.     *)

\* 10 ** k for a Python int k >= 0: an int of any size.
RECURSIVE Pow10B(_)
Pow10B(k) == IF k = 0 THEN BOne ELSE BMulAdd(Pow10B(k - 1), 10, 0)

\* The int held in a few limbs.
RECURSIVE BToInt(_)
BToInt(b) == IF b = <<>> THEN 0 ELSE b[1] + Base * BToInt(Tail(b))

\* The double nearest to n / d, for ints n >= 0 and d > 0 of any size.
RatB(n0, d0) ==
    Let2(n0, d0, LAMBDA n, d :
        IF n = <<>> THEN FZero
        ELSE Let1(MaxI(0, BLen(d) + MantBits + 2 - BLen(n)), LAMBDA sh :
                 Let1(BDivMod(BShl(n, sh), d), LAMBDA qr :
                     RoundBig(1, qr[1], -sh, qr[2] # <<>>))))

\* The double nearest to d * 10^k, the value of the literal "dek".
DecimalF(d, k) ==
    IF k >= 0 THEN RoundBig(1, BMulAdd(Pow10B(k), d, 0), 0, FALSE)
    ELSE RatB(BFromInt(d), Pow10B(-k))

\* Line 236: 10 ** ndim, an int for ndim >= 0 (a double once x is taken
\* from it) and the double pow(10.0, ndim) for ndim < 0.
Pow10(k) == DecimalF(1, k)

\* The largest k with the double of 10^k at or below a double a > 0: the
\* decade of the shortest decimal that reads back as a.
Decade(a0) ==
    Let1(a0, LAMBDA a :
        IF FLe(FromInt(1), a)
        THEN SetMax({k \in 0..15 : FLe(DecimalF(1, k), a)})
        ELSE SetMax({k \in -25..-1 : FLe(DecimalF(1, k), a)}))

\* a and 10^k as ints over one denominator, for a double a > 0.
Scaled(a, k) ==
    [a |-> BShl(BMul(Pow10B(MaxI(-k, 0)), a.m), MaxI(a.e, 0)),
     p |-> BShl(Pow10B(MaxI(k, 0)), MaxI(-a.e, 0))]

\* 10^k <= a, exactly.
AtLeastPow10(a, k) == Let1(Scaled(a, k), LAMBDA sc : BCmp(sc.p, sc.a) <= 0)

\* The exponent of the distance from the double k to the next double on
\* the side of k - 1, for an int k # 0.
GapExp(k) ==
    Let1(IntBits(IF k > 0 THEN k ELSE -k) - 1, LAMBDA ex :
        IF k > 0 /\ k = 2^ex THEN ex - MantBits ELSE ex - MantBits + 1)

\* For a < 10^k: is log10(a) nearer to the double k than that next double
\* is, so that a log10 accurate to less than one unit in the last place may
\* return k itself?  In terms of a: (10^k - a) / 10^k < 2^GapExp(k) * ln 10,
\* with ln 10 = 2.30258509.  No double below 1 has a logarithm that rounds
\* to 0.
NearPow10(a, k) ==
    /\ k # 0
    /\ Let1(Scaled(a, k), LAMBDA sc :
           BCmp(BMul(BSub(sc.p, sc.a), BShl(BFromInt(10^8), -GapExp(k))),
                BMul(sc.p, BFromInt(230258509))) < 0)

\* Line 231: the values int(np.floor(np.log10(a))) can take for a double
\* a > 0.  It is floor(log10(a)), and for the few doubles just below a
\* power of ten 10^k it is k wherever np.log10 returns k for them, which
\* depends on the rounding of the log10 of the build.
FloorLog10(a0) ==
    Let1(a0, LAMBDA a :
        Let1(Decade(a), LAMBDA kd :
            Let1(IF AtLeastPow10(a, kd) THEN kd ELSE kd - 1, LAMBDA k :
                IF NearPow10(a, k + 1) THEN {k, k + 1} ELSE {k})))

\* n / d rounded to the nearest int, ties to the even one.
BRoundDiv(n, d) ==
    Let1(BDivMod(n, d), LAMBDA qr :
        Let1(BCmp(BShl(qr[2], 1), d), LAMBDA c :
            IF c > 0 \/ (c = 0 /\ BBit(qr[1], 0) = 1)
            THEN BAdd(qr[1], BOne)
            ELSE qr[1]))

\* Line 232: round(a, nd) for a double a > 0.  Python rounds the exact
\* value of a to nd decimals, ties to even, and returns the nearest double.
RoundTo(a0, nd0) ==
    Let2(a0, nd0, LAMBDA a, nd :
        Let2(BMul(BShl(a.m, MaxI(a.e, 0)), Pow10B(MaxI(nd, 0))),
             BMul(BShl(BOne, MaxI(-a.e, 0)), Pow10B(MaxI(-nd, 0))),
             LAMBDA num, den :
                 Let1(BRoundDiv(num, den), LAMBDA n :
                     IF nd > 0 THEN RatB(n, Pow10B(nd))
                     ELSE RoundBig(1, BMul(n, Pow10B(-nd)), 0, FALSE))))

\* int(a) for a finite double a: the fraction is dropped.
IntOf(a0) ==
    Let1(a0, LAMBDA a :
        IF IsZero(a) THEN 0
        ELSE IF a.e >= 0 THEN a.s * BToInt(BShl(a.m, a.e))
        ELSE a.s * BToInt(BShr(a.m, -a.e)))

DigitChars == <<"1", "2", "3", "4", "5", "6", "7", "8", "9">>

\* The first digit of the shortest decimal that reads back as a > 0: the
\* largest d with the double of d * 10^k at or below a, k the decade of a.
LeadDigit(a) ==
    Let1(Decade(a), LAMBDA k :
        DigitChars[SetMax({d \in DOMAIN DigitChars : FLe(DecimalF(d, k), a)})])

\* str(a)[0] for a double a.  repr writes a sign first, then "0." for
\* 1e-4 <= a < 1, and otherwise the first digit of a.
LeadChar(a0) ==
    Let1(a0, LAMBDA a :
        IF a.k = "nan" THEN "n"
        ELSE IF a.s = -1 THEN "-"
        ELSE IF a.k = "inf" THEN "i"
        ELSE IF IsZero(a) THEN "0"
        ELSE IF FLe(DecimalF(1, -4), a) /\ FLt(a, FromInt(1)) THEN "0"
        ELSE LeadDigit(a))

\* A faulty variant, for the sensitivity of C6: a bar may start with 3.
AcceptedWith3 == {"1", "2", "3", "5"}

\* Line 235: the first characters scale_number returns on.
Accepted == {"1", "2", "5"}

\* The widest viewport, in units of 2500 m, and the deepest call of
\* scale_number the model follows.
MaxSpan == 40
MaxDepth == 12

\* Whole numbers of metres: none, then steps of 2500 m, the spans below 5000 m in
\* steps of 500 m, two narrow ones, and those of a few longer candidates.
WholeSpans ==
    {2500 * k : k \in 0..MaxSpan} \cup {500 * k : k \in 1..9} \cup {1, 50}
        \cup {5000 * c : c \in {13, 25, 35, 47, 950, 1900}}

\* The double next below a finite double a > 0.
Pred(a) ==
    IF a.m = BShl(BOne, MantBits - 1)
    THEN Fin(a.s, BSub(BShl(BOne, MantBits), BOne), a.e - 1)
    ELSE Fin(a.s, BSub(a.m, BOne), a.e)

\* x1 - x0 as a double: the whole spans, and the doubles next below the
\* spans whose candidates are 0.1, 100 and 1000.
Spans ==
    {FromInt(n) : n \in WholeSpans}
        \cup {Pred(FromInt(5000 * c)) : c \in {100, 1000}}
        \cup {Pred(FromInt(500))}

InitScale ==
    /\ pc = "scale_bar"
    /\ span \in Spans
    /\ length = None /\ ndim = None /\ x = None /\ depth = None /\ diag = None
    /\ here_response = None /\ isolines = None /\ units = None /\ ax_units = None
    /\ values = None /\ patches = None /\ all_poly = None /\ buffer = None
    /\ extent = None

\* Lines 230-232 and the first call of scale_number.  np.log10 gives -inf
\* for 0.0, and int() raises OverflowError on it.
ScaleBar ==
    /\ pc = "scale_bar"
    /\ \E c \in {FDiv(span, FromInt(5000))} :
          IF IsZero(c)
          THEN /\ pc' = "raised"
               /\ diag' = "OverflowError"
               /\ length' = c
               /\ UNCHANGED <<ndim, x, depth>>
          ELSE \E n \in FloorLog10(c) :
                  \E r \in {RoundTo(c, -n)} :
                      /\ ndim' = n
                      /\ length' = r
                      /\ x' = r
                      /\ depth' = 0
                      /\ pc' = "scale_number"
                      /\ diag' = diag
    /\ UNCHANGED <<here_response, isolines, units, ax_units, values, patches,
                   all_poly, buffer, extent, span>>

\* Line 235: scale_number returns int(x), and line 237 assigns it.
ScaleNumberReturn ==
    /\ pc = "scale_number"
    /\ LeadChar(x) \in Accepted
    /\ length' = IntOf(x)
    /\ pc' = "scale_done"
    /\ UNCHANGED <<here_response, isolines, units, ax_units, values, patches,
                   all_poly, buffer, extent, span, ndim, x, depth, diag>>

\* Line 236: scale_number calls itself on x - 10 ** ndim.
ScaleNumberRecurse ==
    /\ pc = "scale_number"
    /\ LeadChar(x) \notin Accepted
    /\ depth < MaxDepth
    /\ x' = FSub(x, Pow10(ndim))
    /\ depth' = depth + 1
    /\ UNCHANGED <<here_response, isolines, units, ax_units, values, patches,
                   all_poly, buffer, extent, span, length, ndim, pc, diag>>

\* A negative x stays negative, str(x)[0] is "-" in every further call, and
\* Python ends the recursion at its limit with RecursionError.
ScaleNumberOverflow ==
    /\ pc = "scale_number"
    /\ depth = MaxDepth
    /\ x.s = -1
    /\ pc' = "raised"
    /\ diag' = "RecursionError"
    /\ UNCHANGED <<here_response, isolines, units, ax_units, values, patches,
                   all_poly, buffer, extent, span, length, ndim, x, depth>>

NextScale ==
    ScaleBar \/ ScaleNumberReturn \/ ScaleNumberRecurse \/ ScaleNumberOverflow

SpecScale == InitScale /\ [][NextScale]_vars

----------------------------------------------------------------------------
(* Properties *)

SetMin(S) == CHOOSE i \in S : \A j \in S : i <= j

\* The boundaries of a path: its vertices, cut before every MOVETO.
Boundaries(path) ==
    LET starts == {j \in DOMAIN path.codes : path.codes[j] = "MOVETO"}
        kth(k) == CHOOSE j \in starts : Cardinality({i \in starts : i < j}) = k - 1
        stop(k) == IF k = Cardinality(starts) THEN Len(path.vertices) ELSE kth(k + 1) - 1
    IN  [k \in 1..Cardinality(starts) |-> SubSeq(path.vertices, kth(k), stop(k))]

\* Region i made of rings: ring i outside and, from the second region on,
\* ring i - 1 inside, its points in reverse order.
IsAnnulus(path, rings, i) ==
    Boundaries(path) =
        IF i = 1 THEN <<rings[1]>> ELSE <<rings[i], Reverse(rings[i - 1])>>

\* The entries of a dict, by ascending key.
SortedByKey(d) ==
    [i \in DOMAIN d |->
        d[CHOOSE j \in DOMAIN d :
              Cardinality({k \in DOMAIN d : FLt(d[k][1], d[j][1])}) = i - 1]]

\* C1: plot_isolines adds one region per ring of the dict, in the order of
\* the dict; the first is the first ring alone, without an inner boundary,
\* and every later region i has ring i, in its point order, as its outer
\* boundary and ring i - 1, its point order reversed, as its inner one.
C1_Annuli ==
    pc = "plotted" =>
        /\ Len(patches) = Len(isolines)
        /\ \A i \in DOMAIN patches :
              IsAnnulus(patches[i].path, Polygons(isolines), i)

\* Three rings plotted, the second unlike the first.
C1_Witness ==
    /\ pc = "plotted"
    /\ Len(patches) >= 3
    /\ isolines[1][2] # isolines[2][2]
    /\ Len(Boundaries(patches[2].path)) = 2

\* C2: whatever the order of insertion, region i is built from the ring
\* with the i-th smallest range value, around the ring with the next
\* smaller one.
C2_AscendingOrder ==
    pc = "plotted" =>
        \A i \in DOMAIN patches :
            IsAnnulus(patches[i].path, Polygons(SortedByKey(isolines)), i)

\* C10: decoding never returns a dict in which one entry's ring replaced
\* another's: a returned dict has one key per entry of the response.
C10_OneKeyPerEntry ==
    pc = "decoded" => Len(isolines) = Len(here_response)

\* C9: empty input is rejected: find_extent does not return an extent for
\* no polygons, and plot_isolines does not complete on an empty dict.
C9_EmptyRejected ==
    /\ ~(pc = "sized" /\ all_poly = <<>>)
    /\ ~(pc = "plotted" /\ isolines = <<>>)

\* The points of all the polygons.
AllPoints(polys) == UNION {Range(polys[j]) : j \in DOMAIN polys}

\* The extent for bounds over all points and one padding from the lon span.
PaddedExtent(lon_min, lon_max, lat_min, lat_max, ratio) ==
    LET b == FMul(FSub(lon_max, lon_min), ratio)
    IN  <<FSub(lon_min, b), FAdd(lon_max, b), FSub(lat_min, b), FAdd(lat_max, b)>>

PinnedExtent == <<FromInt(-1), FromInt(11), FromInt(-1), FromInt(6)>>

\* C8: for polygons that are not none, find_extent returns (lon_min - b,
\* lon_max + b, lat_min - b, lat_max + b), the bounds taken over all points
\* and b = (lon_max - lon_min) * buffer on both axes; for longitudes 0 to
\* 10, latitudes 0 to 5 and buffer 0.1 that is exactly (-1, 11, -1, 6).
C8_Extent ==
    (pc = "sized" /\ all_poly # <<>>) =>
        LET lons == {p[1] : p \in AllPoints(all_poly)}
            lats == {p[2] : p \in AllPoints(all_poly)}
        IN  /\ extent = PaddedExtent(FromInt(SetMin(lons)), FromInt(SetMax(lons)),
                                     FromInt(SetMin(lats)), FromInt(SetMax(lats)),
                                     buffer)
            /\ (/\ SetMin(lons) = 0 /\ SetMax(lons) = 10
                /\ SetMin(lats) = 0 /\ SetMax(lats) = 5
                /\ buffer = Dec(1, 10)) => extent = PinnedExtent

\* Two polygons or more sized to the pinned extent.
C8_Witness ==
    /\ pc = "sized"
    /\ Len(all_poly) >= 2
    /\ buffer = Dec(1, 10)
    /\ extent = PinnedExtent

UnitErrors == {"Incorrect isoline unit specification",
               "Incorrect axis unit specification"}

\* C3: two listed tokens of unlike categories are rejected as incompatible,
\* time to distance and distance to time; two of one category are accepted.
C3_Categories ==
    (pc = "plotted" /\ units \in AllUnits /\ ax_units \in AllUnits) =>
        /\ (units \in TimeUnits /\ ax_units \in DistanceUnits)
               => diag = "Incompatible (time and distance)"
        /\ (units \in DistanceUnits /\ ax_units \in TimeUnits)
               => diag = "Incompatible (distance and time)"
        /\ ((units \in TimeUnits) <=> (ax_units \in TimeUnits))
               => (diag = "ok" /\ Len(patches) = 1)

\* Kilometers labelled in minutes: rejected.
C3_Witness ==
    /\ pc = "plotted"
    /\ units = <<"k", "m">>
    /\ ax_units = <<"m", "i", "n", "u", "t", "e", "s">>
    /\ diag = "Incompatible (distance and time)"

\* C4: a token is recognized exactly when its lower-case form is a listed
\* alias: the unit error is reported if and only if the lower-case form of
\* units or of ax_units is not listed.
C4_CaseInsensitive ==
    pc = "plotted" =>
        ((diag \in UnitErrors) <=>
            (Lower(units) \notin AllUnits \/ Lower(ax_units) \notin AllUnits))

\* The factor of a listed token, as a double.
Factor(u) ==
    IF u \in {<<"s">>, <<"s", "e", "c", "o", "n", "d", "s">>,
              <<"m">>, <<"m", "e", "t", "e", "r", "s">>} THEN FromInt(1)
    ELSE IF u \in {<<"m", "i", "n">>, <<"m", "i", "n", "u", "t", "e", "s">>}
    THEN FromInt(60)
    ELSE IF u \in {<<"h", "o", "u", "r", "s">>, <<"h">>} THEN FromInt(3600)
    ELSE IF u \in {<<"k", "m">>, <<"k", "i", "l", "o", "m", "e", "t", "e", "r", "s">>,
                   <<"k", "m", "s">>} THEN FromInt(1000)
    ELSE IF u \in {<<"f", "t">>, <<"f", "e", "e", "t">>, <<"f", "o", "o", "t">>}
    THEN Lit_0_3048
    ELSE IF u \in {<<"y", "a", "r", "d">>, <<"y", "r", "d">>, <<"y", "a", "r", "d", "s">>}
    THEN Lit_0_9144
    ELSE Lit_1609_344

\* The last call of plot_isolines converted: its source and target tokens
\* and the value it converted, the key of the dict it was given.
Converting == pc \in {"plotted", "plotted back"} /\ diag = "ok"
SourceUnit == IF pc = "plotted" THEN units ELSE ax_units
TargetUnit == IF pc = "plotted" THEN ax_units ELSE units
SourceValue == isolines[1][1]

\* v * factor(A) / factor(B), each operation in double arithmetic.
ByFactors(v, a, b) == FDiv(FMul(v, Factor(a)), Factor(b))

\* v * factor(A) as the conversion forms it: for hours in two steps of 60.
InSteps(v, a) ==
    IF Factor(a) = FromInt(3600) THEN FMul(FMul(v, FromInt(60)), FromInt(60))
    ELSE FMul(v, Factor(a))

\* The relative tolerance 2^-50: four units in the last place of a double.
RelTol == Fin(1, BShl(BOne, MantBits - 1), -(MantBits - 1) - 50)

\* a is b to within the relative tolerance.
Close(a, b) == FLe(FAbs(FSub(a, b)), FMul(FAbs(b), RelTol))

\* C5, as stated: the converted value is v * factor(A) / factor(B), and
\* converting it back from B to A returns v.
C5_RoundTripExact ==
    /\ Converting =>
           values[1] = ByFactors(SourceValue, SourceUnit, TargetUnit)
    /\ (pc = "plotted back" /\ diag = "ok") =>
           FEq(values[1], here_response[1].value)

\* C5, amended: the converted value is the double (v * factor(A)) /
\* factor(B), the product for hours formed as (v * 60) * 60; it is within
\* a relative error of 2^-50 of v * factor(A) / factor(B) computed with the
\* one factor 3600, and equal to it for every other source unit; and
\* converting it back from B to A returns v to within a relative error of
\* 2^-50.
C5_RoundTripClose ==
    /\ Converting =>
           /\ values[1] = FDiv(InSteps(SourceValue, SourceUnit), Factor(TargetUnit))
           /\ \E w \in {ByFactors(SourceValue, SourceUnit, TargetUnit)} :
                  /\ Close(values[1], w)
                  /\ Factor(SourceUnit) # FromInt(3600) => values[1] = w
    /\ (pc = "plotted back" /\ diag = "ok") =>
           Close(values[1], here_response[1].value)

\* A round trip that does not return v, its last conversion from hours
\* unlike the product by 3600.
C5_Witness ==
    /\ pc = "plotted back"
    /\ diag = "ok"
    /\ ~FEq(values[1], here_response[1].value)
    /\ values[1] # ByFactors(SourceValue, SourceUnit, TargetUnit)

\* The largest of 1, 2, 5 at or below a digit m, and 10 for 10.
SnapDigit(m) == IF m = 10 THEN 10 ELSE SetMax({d \in {1, 2, 5} : d <= m})

\* The bar for a span of 5000 m or more, in integers: the candidate is
\* span / 5000, 10^n its decade, m the candidate in units of 10^n rounded
\* to the nearest int, ties to even.
ExpectedBar(sp) ==
    LET n == SetMax({k \in 0..4 : 5000 * 10^k <= sp})
        unit == 5000 * 10^n
        q == sp \div unit
        r == sp % unit
        m == IF 2 * r > unit \/ (2 * r = unit /\ q % 2 = 1) THEN q + 1 ELSE q
    IN  SnapDigit(m) * 10^n

\* C6: for a candidate of 1 km or more the search ends, on the candidate
\* rounded to its decade 10^n and then lowered by 10^n until it starts
\* with 1, 2 or 5: the bar is positive, 1, 2 or 5 followed by zeros, and is
\* 10, 50 and 2000 for the candidates 13, 47 and 1900.
C6_BarLength ==
    FLe(FromInt(5000), span) =>
        /\ pc # "raised"
        /\ pc = "scale_done" =>
              /\ length > 0
              /\ length \in {d * 10^k : d \in {1, 2, 5}, k \in 0..4}
              /\ span = FromInt(IntOf(span)) => length = ExpectedBar(IntOf(span))
              /\ span = Pred(FromInt(5000 * 100)) => length = 100
              /\ span = FromInt(5000 * 13) => length = 10
              /\ span = FromInt(5000 * 47) => length = 50
              /\ span = FromInt(5000 * 1900) => length = 2000

\* The candidate 35 rounded to 40 and lowered twice, to 20.
C6_Witness ==
    /\ pc = "scale_done"
    /\ span = FromInt(5000 * 35)
    /\ depth = 2
    /\ length = 20

\* C7: for every positive span the search ends within 9 steps, on a bar
\* that starts with 1, 2 or 5 or on an error raised before x is zero or
\* less: scale_number is never called on an x that is not positive.
C7_BoundedSearch ==
    FLt(FZero, span) =>
        /\ pc = "scale_number" => (depth <= 9 /\ FLt(FZero, x))
        /\ pc = "scale_done" =>
              length \in {d * 10^k : d \in {1, 2, 5}, k \in 0..4}
        /\ diag # "RecursionError"

====
